---- MODULE Spec2Model ----
(***************************************************************************)
(* RivalOPS: the per-target pipeline (packages/core/langgraph_workflow.py), *)
(* the snapshot store (packages/core/ingestion.py) and the content fetcher *)
(* (packages/core/firecrawl_client.py), over the tables of models.py.      *)
(*                                                                         *)
(* Scores are in hundredths (0.45 is 45).  A Python dict is a function     *)
(* whose DOMAIN is the set of keys present; d.get(k, x) is Get(d, k, x).   *)
(* Every await (HTTP request, model call) and every database session is a  *)
(* separate step, so invocations running in different tasks or processes   *)
(* interleave there.                                                       *)
(***************************************************************************)
EXTENDS Integers, Sequences, FiniteSets, TLC

\* ---------------------------------------------------------------- bounds
MaxCalls == 2          \* invocations of run_workflow_for_target in a behaviour
MaxRetriesBound == 3   \* largest max_retries a direct scrape_url call is given
MaxRequests == 2       \* requests each API client makes in a behaviour
MaxPasses == 2         \* passes the worker makes in a behaviour
MaxRows == 5           \* snapshots stored when the history query is examined

\* ------------------------------------------------------ program constants
DefaultMaxRetries == 3
DefaultBackoff == 2
GrayLow == 45
GrayHigh == 65
ScoreMin == 0
ScoreMax == 100
HistoryLimit == 3
DefaultScore == 0
ScheduleMinutes == 60

None == "None"          \* a null string column or Optional[str]
NoId == 0               \* a null id: Optional[int] = None (ids start at 1)
NoScore == 0 - 999      \* Optional[float] = None
NoTime == 0 - 1         \* a null timestamp column
Procs == {"w1", "w2"}
Contents == {"C1", "C2"}
Backoffs == {1, 2, 3}
TransientCodes == {429, 500, 502, 503, 504}

VARIABLES
    settings,    \* config.Settings: the two model ids and the credentials
    targets,     \* table targets: the ids that have a row (read-only here)
    runs,        \* table runs, a sequence indexed by id
    snapshots,   \* table snapshots
    analyses,    \* table analyses
    briefings,   \* table briefings
    clock,       \* datetime.utcnow(), a logical clock
    calls,       \* number of run_workflow_for_target invocations so far
    pc,          \* where each invocation stands
    wf,          \* WorkflowState of each invocation
    fetch,       \* locals of scrape_url in each invocation
    an,          \* locals of node_analyze in each invocation
    err,         \* the exception an invocation raised, or None
    asked,       \* history: the models each invocation's analysis has called
    ingested,    \* history: (target, content, id) of every ingest that returned
    enabled,     \* table targets: the ids whose row has enabled = True
    pass,        \* locals of the worker's process_targets_once
    rq,          \* the API requests: where each stands, and its briefing id
    posted       \* the messages the Slack webhook has accepted

vars == <<settings, targets, runs, snapshots, analyses, briefings, clock, calls,
          pc, wf, fetch, an, err, asked, ingested, enabled, pass, rq, posted>>

\* ------------------------------------------------------------- helpers
Get(d, k, default) == IF k \in DOMAIN d THEN d[k] ELSE default

RECURSIVE Pow2(_)
Pow2(n) == IF n <= 0 THEN 1 ELSE 2 * Pow2(n - 1)

Ids(table) == 1..Len(table)

\* Mutant: the lookup taken to find a row whatever the id.
TargetExistsAlways(t) == TRUE

\* session.get(Target, id) finds a row.
TargetExists(t) == t \in targets
\* The ids an invocation may be given: every row's, and one with no row.
RequestedIds == targets \cup {Cardinality(targets) + 1}

\* _hash_content: sha256 of the text; distinct texts of the model have
\* distinct digests.
H1 == "H1"
H2 == "H2"
_hash_content(content) ==
    IF content = "C1" THEN H1
    ELSE IF content = "C2" THEN H2
    ELSE "sha256:" \o content

\* A dict with no key, and a dict extended by one key.
EmptyDict == [k \in {} |-> 0]
With(d, k, v) == [j \in DOMAIN d \cup {k} |-> IF j = k THEN v ELSE d[j]]
Opt(ds, k, vs) == ds \cup {With(d, k, v) : d \in ds, v \in vs}

\* ------------------------------------------------------------- errors
\* An exception: its class, what it reports, and the status code, attempt
\* count and response body its message quotes.
NoErr == [type |-> None, why |-> None, status |-> 0, attempts |-> 0,
          body |-> EmptyDict]
Error(type, why, status, attempts) ==
    [type |-> type, why |-> why, status |-> status, attempts |-> attempts,
     body |-> EmptyDict]

\* ------------------------------------------ firecrawl_client.scrape_url
\* What one client.post can give: an httpx.HTTPError, or a response with a
\* status code and a JSON body (the data wrapper flattened into the key).
TransportError == [kind |-> "error", status_code |-> 0, data |-> EmptyDict]
Response(code, data) == [kind |-> "response", status_code |-> code, data |-> data]

Page(c) == With(EmptyDict, "data.markdown", c)

\* The upstream of the pipeline specification, and the wider one a direct
\* call of scrape_url is checked against.
PipelineOutcomes ==
    {Response(200, Page(c)) : c \in Contents}
        \cup {Response(503, EmptyDict), Response(404, EmptyDict)}
FetchOutcomes ==
    PipelineOutcomes
        \cup {Response(200, EmptyDict), TransportError,
              Response(429, EmptyDict), Response(500, EmptyDict),
              Response(200, With(EmptyDict, "markdown", "C1")),
              Response(200, With(Page(""), "content", "C2")),
              Response(200, With(EmptyDict, "data.content", "C2")),
              Response(200, Page("")),
              Response(403, With(EmptyDict, "error", "forbidden"))}

NoFetch == [max_retries |-> 0, backoff_seconds |-> 0, attempt |-> 0,
            log |-> <<>>, sleeps |-> <<>>, content |-> None]
\* The locals of scrape_url on entry.
FetchEntry(max_retries, backoff_seconds) ==
    [NoFetch EXCEPT !.max_retries = max_retries,
                    !.backoff_seconds = backoff_seconds]

\* Mutant: the probe ends in a placeholder text instead of "".
content_md_placeholder(data) ==
    LET a == Get(data, "data.markdown", "")
        b == Get(data, "markdown", "")
        c == Get(data, "data.content", "")
        d == Get(data, "content", "")
    IN  IF a # "" THEN a ELSE IF b # "" THEN b ELSE IF c # "" THEN c
        ELSE IF d # "" THEN d ELSE "C2"

\* content_md: the first truthy of the probed shapes, else "".
content_md(data) ==
    LET a == Get(data, "data.markdown", "")
        b == Get(data, "markdown", "")
        c == Get(data, "data.content", "")
        d == Get(data, "content", "")
    IN  IF a # "" THEN a ELSE IF b # "" THEN b ELSE IF c # "" THEN c ELSE d

\* Mutant: every status but 200 taken as transient.
IsTransientAnyFailure(status_code) == status_code # 200

\* `if resp.status_code in (429, 500, 502, 503, 504)`
IsTransient(status_code) == status_code \in TransientCodes

\* Mutant: the bound compared with > lets one more request through.
RetriesExhaustedOffByOne(attempt, max_retries) == attempt > max_retries

\* `if attempt >= max_retries: raise`
RetriesExhausted(attempt, max_retries) == attempt >= max_retries

\* wait_time = backoff_seconds * (2 ** (attempt - 1))
wait_time(backoff_seconds, attempt) == backoff_seconds * Pow2(attempt - 1)

\* Mutant: the exception swallowed, the invocation going on to the store.
RaiseSwallowed(p, e) ==
    /\ pc' = [pc EXCEPT ![p] = "scraped"]
    /\ err' = [err EXCEPT ![p] = e]

\* An exception leaves the function and, uncaught by any node, the graph.
Raise(p, e) ==
    /\ pc' = [pc EXCEPT ![p] = "raised"]
    /\ err' = [err EXCEPT ![p] = e]

\* Entry of scrape_url: the credential check before the loop.
ScrapeUrlEntry(p) ==
    /\ pc[p] = "scrape_url"
    /\ IF ~settings.firecrawl_api_key
       THEN Raise(p, Error("FirecrawlError", "no_api_key", 0, 0))
       ELSE /\ pc' = [pc EXCEPT ![p] = "fetching"]
            /\ UNCHANGED err
    /\ UNCHANGED <<settings, targets, enabled, pass, rq, posted,
                   runs, snapshots, analyses, briefings, clock,
                   calls, wf, fetch, an, ingested, asked>>

\* One pass of the `while True` loop: attempt += 1, one request, and what
\* the loop does with its outcome (return, raise, or sleep and go round).
ScrapeAttempt(p, o) ==
    LET f == fetch[p]
        attempt == f.attempt + 1
        g == [f EXCEPT !.attempt = attempt, !.log = Append(f.log, o)]
    IN
    /\ pc[p] = "fetching"
    /\ IF o.kind = "error"
       THEN IF RetriesExhausted(attempt, f.max_retries)
            THEN /\ fetch' = [fetch EXCEPT ![p] = g]
                 /\ Raise(p, Error("FirecrawlError", "http_error", 0, attempt))
            ELSE /\ fetch' = [fetch EXCEPT ![p] = g]   \* loops at once, no sleep
                 /\ UNCHANGED <<pc, err>>
       ELSE IF o.status_code = 200
       THEN IF content_md(o.data) = ""
            THEN /\ fetch' = [fetch EXCEPT ![p] = g]
                 /\ Raise(p, [Error("FirecrawlError", "empty_content", 200, attempt)
                                 EXCEPT !.body = o.data])
            ELSE /\ fetch' = [fetch EXCEPT ![p] =
                                [g EXCEPT !.content = content_md(o.data)]]
                 /\ pc' = [pc EXCEPT ![p] = "scraped"]
                 /\ UNCHANGED err
       ELSE IF IsTransient(o.status_code)
       THEN IF RetriesExhausted(attempt, f.max_retries)
            THEN /\ fetch' = [fetch EXCEPT ![p] = g]
                 /\ Raise(p, Error("FirecrawlError", "transient", o.status_code, attempt))
            ELSE /\ fetch' = [fetch EXCEPT ![p] =
                        [g EXCEPT !.sleeps =
                            Append(f.sleeps, wait_time(f.backoff_seconds, attempt))]]
                 /\ UNCHANGED <<pc, err>>
       ELSE /\ fetch' = [fetch EXCEPT ![p] = g]
            /\ Raise(p, [Error("FirecrawlError", "non_success", o.status_code, attempt)
                            EXCEPT !.body = o.data])
    /\ UNCHANGED <<settings, targets, enabled, pass, rq, posted,
                   runs, snapshots, analyses, briefings, clock,
                   calls, wf, an, ingested, asked>>

\* ------------------------------------------------- langgraph_workflow
\* WorkflowState(target_id=t): every other field None.
WorkflowState(t) ==
    [target_id |-> t, run_id |-> NoId, snapshot_id |-> NoId, decision |-> None,
     drift_score |-> NoScore, analysis_id |-> NoId, briefing_id |-> NoId]

NoAnalyze == [history |-> <<>>, fast_score |-> NoScore, result |-> EmptyDict,
              decision |-> None, drift_score |-> NoScore]

\* The Run row node_fetch_history adds.
NewRun(t, now) ==
    [target_id |-> t, snapshot_id |-> NoId, started_at |-> now,
     ended_at |-> NoTime, status |-> "success", error_message |-> NoErr,
     attempt |-> 1]

\* run_workflow_for_target(t): a fresh WorkflowState enters the graph at
\* fetch_history, which looks the target up and adds the Run row.  A task
\* starts an invocation when it has none running.
node_fetch_history(p, t) ==
    /\ pc[p] \in {"idle", "done", "raised"}
    /\ calls < MaxCalls
    /\ calls' = calls + 1
    /\ fetch' = [fetch EXCEPT ![p] = NoFetch]
    /\ an' = [an EXCEPT ![p] = NoAnalyze]
    /\ asked' = [asked EXCEPT ![p] = <<>>]
    /\ IF ~TargetExists(t)
       THEN /\ pc' = [pc EXCEPT ![p] = "raised"]
            /\ err' = [err EXCEPT ![p] = Error("ValueError", "target_not_found", 0, 0)]
            /\ wf' = [wf EXCEPT ![p] = WorkflowState(t)]
            /\ UNCHANGED <<runs, clock>>
       ELSE /\ runs' = Append(runs, NewRun(t, clock))
            /\ clock' = clock + 1
            /\ wf' = [wf EXCEPT ![p] = [WorkflowState(t) EXCEPT !.run_id = Len(runs) + 1]]
            /\ pc' = [pc EXCEPT ![p] = "scrape"]
            /\ err' = [err EXCEPT ![p] = NoErr]
    /\ UNCHANGED <<settings, targets, enabled, rq, posted,
                   snapshots, analyses, briefings, ingested>>

\* --------------------------------------------- ingestion.ingest_target
\* node_scrape calls ingest_target, which looks the target up and calls
\* scrape_url(target.url) with the default retry parameters.
node_scrape(p) ==
    /\ pc[p] = "scrape"
    /\ IF ~TargetExists(wf[p].target_id)
       THEN /\ Raise(p, Error("ValueError", "target_not_found", 0, 0))
            /\ UNCHANGED fetch
       ELSE /\ fetch' = [fetch EXCEPT ![p] =
                            FetchEntry(DefaultMaxRetries, DefaultBackoff)]
            /\ pc' = [pc EXCEPT ![p] = "scrape_url"]
            /\ UNCHANGED err
    /\ UNCHANGED <<settings, targets, enabled, pass, rq, posted,
                   runs, snapshots, analyses, briefings, clock,
                   calls, wf, an, ingested, asked>>

\* Mutant: the query compares the digest with the text column, so it never
\* finds the stored row.
ExistingSnapshotsWrongColumn(t, h) ==
    {i \in Ids(snapshots) :
        snapshots[i].target_id = t /\ snapshots[i].content_markdown = h}

\* select(Snapshot).where(target_id == t, content_hash == h)
ExistingSnapshots(t, h) ==
    {i \in Ids(snapshots) :
        snapshots[i].target_id = t /\ snapshots[i].content_hash = h}

\* Mutant: the table without its unique constraint.
uq_snapshot_dropped(t, h) == TRUE

\* UniqueConstraint("target_id", "content_hash"): whether a row may be added.
uq_snapshot_target_hash(t, h) ==
    \A i \in Ids(snapshots) :
        ~(snapshots[i].target_id = t /\ snapshots[i].content_hash = h)

NewSnapshot(t, content, now) ==
    [target_id |-> t, fetched_at |-> now,
     content_hash |-> _hash_content(content), content_markdown |-> content,
     metadata_json |-> [status_code |-> 200]]

\* ingest_target returns snapshot i and node_scrape stores its id.
IngestReturns(p, i) ==
    /\ wf' = [wf EXCEPT ![p].snapshot_id = i]
    /\ ingested' = ingested \cup
          {[target_id |-> wf[p].target_id, content |-> fetch[p].content, id |-> i]}
    /\ fetch' = [fetch EXCEPT ![p] = NoFetch]
    /\ pc' = [pc EXCEPT ![p] = "analyze"]
    /\ UNCHANGED err

\* Mutant: the existing row is refreshed (its fetch time set to now) before
\* it is returned.
IngestSelectTouching(p) ==
    LET found == ExistingSnapshots(wf[p].target_id, _hash_content(fetch[p].content))
    IN
    /\ pc[p] = "scraped"
    /\ IF Cardinality(found) > 1
       THEN /\ Raise(p, Error("MultipleResultsFound", "snapshot", 0, 0))
            /\ UNCHANGED <<wf, fetch, ingested, snapshots>>
       ELSE IF found # {}
       THEN /\ IngestReturns(p, CHOOSE i \in found : TRUE)
            /\ snapshots' = [i \in Ids(snapshots) |->
                    IF i \in found THEN [snapshots[i] EXCEPT !.fetched_at = clock]
                    ELSE snapshots[i]]
       ELSE /\ pc' = [pc EXCEPT ![p] = "insert_snapshot"]
            /\ UNCHANGED <<wf, fetch, ingested, err, snapshots>>
    /\ UNCHANGED <<settings, targets, enabled, pass, rq, posted,
                   runs, analyses, briefings, clock,
                   calls, an, asked>>

\* The idempotency check: the existing row, if any, is returned unwritten.
IngestSelect(p) ==
    LET found == ExistingSnapshots(wf[p].target_id, _hash_content(fetch[p].content))
    IN
    /\ pc[p] = "scraped"
    /\ IF Cardinality(found) > 1
       THEN /\ Raise(p, Error("MultipleResultsFound", "snapshot", 0, 0))
            /\ UNCHANGED <<wf, fetch, ingested>>
       ELSE IF found # {}
       THEN IngestReturns(p, CHOOSE i \in found : TRUE)
       ELSE /\ pc' = [pc EXCEPT ![p] = "insert_snapshot"]
            /\ UNCHANGED <<wf, fetch, ingested, err>>
    /\ UNCHANGED <<settings, targets, enabled, pass, rq, posted,
                   runs, snapshots, analyses, briefings, clock,
                   calls, an, asked>>

\* session.add(snapshot); session.flush(); commit on leaving the session.
IngestInsert(p) ==
    /\ pc[p] = "insert_snapshot"
    /\ IF ~uq_snapshot_target_hash(wf[p].target_id, _hash_content(fetch[p].content))
       THEN /\ Raise(p, Error("IntegrityError", "uq_snapshot_target_hash", 0, 0))
            /\ UNCHANGED <<snapshots, clock, wf, fetch, ingested>>
       ELSE /\ snapshots' = Append(snapshots,
                    NewSnapshot(wf[p].target_id, fetch[p].content, clock))
            /\ clock' = clock + 1
            /\ IngestReturns(p, Len(snapshots) + 1)
    /\ UNCHANGED <<settings, targets, enabled, pass, rq, posted,
                   runs, analyses, briefings, calls, an, asked>>

\* ------------------------------------------------------ node_analyze
\* What a model call can give: a parsed JSON object, or a failure (the API
\* raised, or the text did not parse).
CallFailed == [ok |-> FALSE, json |-> EmptyDict]
Reply(json) == [ok |-> TRUE, json |-> json]

Verdict(decision, score) ==
    With(With(EmptyDict, "decision", decision), "drift_score", score)

\* The analyst replies of the pipeline specification.
PipelineFast ==
    {Reply(Verdict("no_change", 20)), Reply(Verdict("drift", 50)), CallFailed}
PipelineSmart == {Reply(Verdict("drift", 80))}

\* The wider replies node_analyze alone is checked against: every key may
\* be missing, and the scores sit on both sides of each boundary.
AnalystScores == {0 - 10, 44, 45, 50, 65, 66, 80, 120}
AnalystFast ==
    {Reply(d) : d \in
        Opt(Opt(Opt(Opt(Opt({EmptyDict},
            "decision", {"no_change", "drift", "maybe"}),
            "drift_score", AnalystScores),
            "change_types", {<<"pricing">>}),
            "evidence", {<<"quote">>}),
            "recommended_followups", {<<"recheck">>})}
        \cup {CallFailed}
AnalystSmart ==
    {Reply(d) : d \in
        Opt(Opt(Opt({EmptyDict},
            "decision", {"no_change", "drift"}),
            "drift_score", {50, 80, 120}),
            "change_types", {<<"features">>})}
        \cup {CallFailed}

\* The rows the history query returns, most recent first:
\* where(target_id == s.target_id, id != s.id).order_by(fetched_at.desc()).limit(3)
RECURSIVE MostRecentFirst(_, _)
MostRecentFirst(ids, n) ==
    IF ids = {} \/ n = 0 THEN <<>>
    ELSE LET m == CHOOSE i \in ids :
                    \A j \in ids : snapshots[j].fetched_at <= snapshots[i].fetched_at
         IN  <<m>> \o MostRecentFirst(ids \ {m}, n - 1)

\* Mutant: the query without its `Snapshot.id != snapshot.id`.
prev_snaps_with_self(sid) ==
    MostRecentFirst(
        {i \in Ids(snapshots) :
            snapshots[i].target_id = snapshots[sid].target_id},
        HistoryLimit)

prev_snaps(sid) ==
    MostRecentFirst(
        {i \in Ids(snapshots) :
            snapshots[i].target_id = snapshots[sid].target_id /\ i # sid},
        HistoryLimit)

\* 0.45 <= drift_score <= 0.65
InGrayZone(score) == GrayLow <= score /\ score <= GrayHigh

\* Mutant: the gray zone taken as an open interval.
EscalatesOpenInterval(score, fast_model, smart_model) ==
    GrayLow < score /\ score < GrayHigh /\ smart_model # fast_model

\* `if 0.45 <= drift_score <= 0.65 and smart_model != fast_model`
Escalates(score, fast_model, smart_model) ==
    InGrayZone(score) /\ smart_model # fast_model

\* model=smart_model if 0.45 <= drift_score <= 0.65 else fast_model, where
\* drift_score is the final score.
StoredModel(score, fast_model, smart_model) ==
    IF InGrayZone(score) THEN smart_model ELSE fast_model

\* Mutant: an absent list stored as a placeholder entry.
SummaryWithPlaceholders(result) ==
    [change_types |-> Get(result, "change_types", <<"none">>),
     evidence |-> Get(result, "evidence", <<"none">>),
     recommended_followups |-> Get(result, "recommended_followups", <<"none">>)]

\* The summary dict built from the last result.
Summary(result) ==
    [change_types |-> Get(result, "change_types", <<>>),
     evidence |-> Get(result, "evidence", <<>>),
     recommended_followups |-> Get(result, "recommended_followups", <<>>)]

\* Mutant: the table without its check constraint.
ck_drift_score_dropped(score) == TRUE

\* CheckConstraint("drift_score >= 0.0 AND drift_score <= 1.0")
ck_drift_score_range(score) == ScoreMin <= score /\ score <= ScoreMax

\* Session one (snapshot and history) and the fast-model call.
AnalyzeFast(p, out) ==
    LET sid == wf[p].snapshot_id
        fast == settings.openai_model_fast
        smart == settings.openai_model_smart
        decision == Get(out.json, "decision", "no_change")
        score == Get(out.json, "drift_score", DefaultScore)
    IN
    /\ pc[p] = "analyze"
    /\ IF sid = NoId \/ wf[p].run_id = NoId
       THEN /\ Raise(p, Error("ValueError", "ids_required", 0, 0))
            /\ UNCHANGED <<an, asked>>
       ELSE IF sid \notin Ids(snapshots)
       THEN /\ Raise(p, Error("ValueError", "snapshot_not_found", 0, 0))
            /\ UNCHANGED <<an, asked>>
       ELSE IF ~settings.openai_api_key
       THEN /\ Raise(p, Error("RuntimeError", "client_not_configured", 0, 0))
            /\ an' = [an EXCEPT ![p].history = prev_snaps(sid)]
            /\ UNCHANGED asked
       ELSE IF ~out.ok
       THEN /\ Raise(p, Error("RuntimeError", "model_call_failed", 0, 0))
            /\ an' = [an EXCEPT ![p].history = prev_snaps(sid)]
            /\ asked' = [asked EXCEPT ![p] = <<fast>>]
       ELSE /\ an' = [an EXCEPT ![p] =
                        [history |-> prev_snaps(sid),
                         fast_score |-> score, result |-> out.json,
                         decision |-> decision, drift_score |-> score]]
            /\ asked' = [asked EXCEPT ![p] = <<fast>>]
            /\ pc' = [pc EXCEPT ![p] =
                        IF Escalates(score, fast, smart)
                        THEN "analyze_escalate" ELSE "analyze_persist"]
            /\ UNCHANGED err
    /\ UNCHANGED <<settings, targets, enabled, pass, rq, posted,
                   runs, snapshots, analyses, briefings, clock,
                   calls, wf, fetch, ingested>>

\* The smart-model call of the gray zone; its result replaces the first.
AnalyzeEscalate(p, out) ==
    LET smart == settings.openai_model_smart IN
    /\ pc[p] = "analyze_escalate"
    /\ asked' = [asked EXCEPT ![p] = Append(@, smart)]
    /\ IF ~out.ok
       THEN /\ Raise(p, Error("RuntimeError", "model_call_failed", 0, 0))
            /\ UNCHANGED an
       ELSE /\ an' = [an EXCEPT
                        ![p].result = out.json,
                        ![p].decision = Get(out.json, "decision", an[p].decision),
                        ![p].drift_score =
                            Get(out.json, "drift_score", an[p].drift_score)]
            /\ pc' = [pc EXCEPT ![p] = "analyze_persist"]
            /\ UNCHANGED err
    /\ UNCHANGED <<settings, targets, enabled, pass, rq, posted,
                   runs, snapshots, analyses, briefings, clock,
                   calls, wf, fetch, ingested>>

\* Mutant: the row stored without its run.
NewAnalysisUnlinked(run_id, model, score, decision, summary) ==
    [run_id |-> NoId, model |-> model, drift_score |-> score,
     decision |-> decision, diff_summary_json |-> summary]

\* Analysis(run_id=..., model=..., drift_score=..., decision=..., ...)
NewAnalysis(run_id, model, score, decision, summary) ==
    [run_id |-> run_id, model |-> model, drift_score |-> score,
     decision |-> decision, diff_summary_json |-> summary]

\* Session two: the Analysis row, under the score check constraint.
AnalyzePersist(p) ==
    LET a == an[p] IN
    /\ pc[p] = "analyze_persist"
    /\ IF ~ck_drift_score_range(a.drift_score)
       THEN /\ Raise(p, Error("IntegrityError", "ck_drift_score_range", 0, 0))
            /\ UNCHANGED <<analyses, wf, an>>
       ELSE /\ analyses' = Append(analyses,
                    NewAnalysis(wf[p].run_id,
                        StoredModel(a.drift_score, settings.openai_model_fast,
                                    settings.openai_model_smart),
                        a.drift_score, a.decision, Summary(a.result)))
            /\ wf' = [wf EXCEPT ![p].analysis_id = Len(analyses) + 1,
                                ![p].decision = a.decision,
                                ![p].drift_score = a.drift_score]
            /\ an' = [an EXCEPT ![p] = NoAnalyze]
            /\ pc' = [pc EXCEPT ![p] = "update_run_status"]
            /\ UNCHANGED err
    /\ UNCHANGED <<settings, targets, enabled, pass, rq, posted,
                   runs, snapshots, briefings, clock, calls,
                   fetch, ingested, asked>>

\* ----------------------------------------------- node_update_run_status
\* build_workflow_graph: add_edge("update_run_status", "draft_briefing") is
\* the only edge out of update_run_status, whatever the decision.
NextAfterStatus(decision) == "draft_briefing"

\* Mutant: the drift branch lost, so a drift decision keeps the placeholder.
StatusForNoDrift(decision) ==
    IF decision = "no_change" THEN "no_change" ELSE "success"

\* The status the decision maps to.
StatusFor(decision) ==
    IF decision = "drift" THEN "drift"
    ELSE IF decision = "no_change" THEN "no_change"
    ELSE "success"

node_update_run_status(p) ==
    LET rid == wf[p].run_id IN
    /\ pc[p] = "update_run_status"
    /\ IF rid = NoId
       THEN /\ Raise(p, Error("ValueError", "run_id_required", 0, 0))
            /\ UNCHANGED <<runs, clock>>
       ELSE IF rid \notin Ids(runs)
       THEN /\ Raise(p, Error("ValueError", "run_not_found", 0, 0))
            /\ UNCHANGED <<runs, clock>>
       ELSE /\ runs' = [runs EXCEPT ![rid].ended_at = clock,
                                    ![rid].status = StatusFor(wf[p].decision)]
            /\ clock' = clock + 1
            /\ pc' = [pc EXCEPT ![p] = NextAfterStatus(wf[p].decision)]
            /\ UNCHANGED err
    /\ UNCHANGED <<settings, targets, enabled, pass, rq, posted,
                   snapshots, analyses, briefings, calls, wf,
                   fetch, an, ingested, asked>>

\* ------------------------------------------------- node_draft_briefing
\* The drafting replies: every field given, or none (the defaults apply).
FullDraft ==
    [title |-> "T", executive_summary |-> "S", details_markdown |-> "D",
     risk_level |-> "high"]
PipelineDrafts == {Reply(FullDraft), CallFailed}
DraftReplies == PipelineDrafts \cup {Reply(EmptyDict)}

\* data.get(k) or default
GetOr(d, k, default) == IF Get(d, k, "") = "" THEN default ELSE d[k]

NewBriefing(run_id, data) ==
    [run_id |-> run_id,
     title |-> GetOr(data, "title", "Competitor update"),
     executive_summary |-> GetOr(data, "executive_summary", ""),
     details_markdown |-> GetOr(data, "details_markdown", ""),
     risk_level |-> GetOr(data, "risk_level", "medium"),
     review_status |-> "pending", reviewed_by |-> None, slack_ts |-> None]

\* Briefing.run_id is unique=True.
uq_briefing_run_id(run_id) ==
    \A i \in Ids(briefings) : briefings[i].run_id # run_id

node_draft_briefing(p, out) ==
    LET w == wf[p] IN
    /\ pc[p] = "draft_briefing"
    /\ IF w.snapshot_id = NoId \/ w.analysis_id = NoId \/ w.run_id = NoId
       THEN /\ Raise(p, Error("ValueError", "ids_required", 0, 0))
            /\ UNCHANGED <<briefings, wf>>
       ELSE IF \/ w.snapshot_id \notin Ids(snapshots)
               \/ w.analysis_id \notin Ids(analyses)
               \/ ~TargetExists(snapshots[w.snapshot_id].target_id)
       THEN /\ Raise(p, Error("ValueError", "missing_row", 0, 0))
            /\ UNCHANGED <<briefings, wf>>
       ELSE IF ~settings.openai_api_key
       THEN /\ Raise(p, Error("RuntimeError", "client_not_configured", 0, 0))
            /\ UNCHANGED <<briefings, wf>>
       ELSE IF ~out.ok
       THEN /\ Raise(p, Error("RuntimeError", "model_call_failed", 0, 0))
            /\ UNCHANGED <<briefings, wf>>
       ELSE IF ~uq_briefing_run_id(w.run_id)
       THEN /\ Raise(p, Error("IntegrityError", "uq_briefing_run_id", 0, 0))
            /\ UNCHANGED <<briefings, wf>>
       ELSE /\ briefings' = Append(briefings, NewBriefing(w.run_id, out.json))
            /\ wf' = [wf EXCEPT ![p].briefing_id = Len(briefings) + 1]
            /\ pc' = [pc EXCEPT ![p] = "human_gate"]
            /\ UNCHANGED err
    /\ UNCHANGED <<settings, targets, enabled, pass, rq, posted,
                   runs, snapshots, analyses, clock, calls,
                   fetch, an, ingested, asked>>

node_human_gate(p) ==
    /\ pc[p] = "human_gate"
    /\ IF wf[p].briefing_id = NoId
       THEN Raise(p, Error("ValueError", "briefing_id_required", 0, 0))
       ELSE /\ pc' = [pc EXCEPT ![p] = "done"]
            /\ UNCHANGED err
    /\ UNCHANGED <<settings, targets, enabled, pass, rq, posted,
                   runs, snapshots, analyses, briefings, clock,
                   calls, wf, fetch, an, ingested, asked>>

\* ------------------------------------- worker: process_targets_once
Worker == CHOOSE p \in Procs : TRUE

\* The locals of process_targets_once: the list read at the start, the loop
\* position, and (history) the outcome of every invocation it has made.
NoPass == [state |-> "none", targets |-> <<>>, next |-> 1, at |-> "loop",
           outcomes |-> <<>>, n |-> 0]

\* Target.schedule_minutes: every row has the column default.
schedule_minutes(t) == ScheduleMinutes

\* The minutes between the end of one pass and the start of the next:
\* worker_loop's interval_seconds, 900 by default or set by the caller.
Elapsed == {15, 90}

\* last_run_map: target_id -> max(Run.started_at), for the targets with runs.
last_run_map ==
    [t \in {runs[r].target_id : r \in Ids(runs)} |->
        CHOOSE m \in {runs[r].started_at : r \in Ids(runs)} :
            /\ \E r \in Ids(runs) : runs[r].target_id = t /\ runs[r].started_at = m
            /\ \A r \in Ids(runs) : runs[r].target_id = t => runs[r].started_at <= m]

\* The orders in which select(Target) can return the rows of ids.
RECURSIVE Orders(_)
Orders(ids) ==
    IF ids = {} THEN {<<>>}
    ELSE UNION {{<<i>> \o rest : rest \in Orders(ids \ {i})} : i \in ids}

\* select(Target).where(Target.enabled.is_(True)); last_run_map is computed
\* and never read, so every enabled target is in the pass.  A pass after the
\* first starts once worker_loop has slept.
process_targets_once(p) ==
    /\ p = Worker
    /\ pass.state # "running"
    /\ pass.n < MaxPasses
    /\ pc[p] \in {"idle", "done", "raised"}
    /\ IF pass.n = 0 THEN clock' = clock ELSE \E d \in Elapsed : clock' = clock + d
    /\ \E list \in Orders({t \in targets : t \in enabled}) :
          pass' = [NoPass EXCEPT
                      !.state = IF list = <<>> THEN "returned" ELSE "running",
                      !.targets = list,
                      !.n = pass.n + 1]
    /\ UNCHANGED <<settings, targets, enabled, rq, posted, runs, snapshots,
                   analyses, briefings, calls, pc, wf, fetch, an, err,
                   asked, ingested>>

\* Mutant: the loop without its try/except, so a raised invocation ends it.
PassStopsOnError(outcome) == outcome = "done"

\* `except Exception: logger.exception(...)`: the loop goes on after an
\* invocation that returned and after one that raised.
PassContinues(outcome) == outcome \in {"done", "raised"}

\* The loop body: await run_workflow_for_target(target_id).
WorkerCall(p) ==
    /\ p = Worker
    /\ pass.state = "running"
    /\ pass.at = "loop"
    /\ node_fetch_history(p, pass.targets[pass.next])
    /\ pass' = [pass EXCEPT !.at = "awaiting"]

\* The invocation is over: the next target, the end of the list, or the
\* exception leaving process_targets_once.
WorkerResume(p) ==
    /\ p = Worker
    /\ pass.state = "running"
    /\ pass.at = "awaiting"
    /\ pc[p] \in {"done", "raised"}
    /\ pass' = IF ~PassContinues(pc[p])
               THEN [pass EXCEPT !.state = "aborted",
                                 !.outcomes = Append(@, pc[p])]
               ELSE [pass EXCEPT
                        !.state = IF pass.next = Len(pass.targets)
                                  THEN "returned" ELSE "running",
                        !.next = pass.next + 1,
                        !.at = "loop",
                        !.outcomes = Append(@, pc[p])]
    /\ UNCHANGED <<settings, targets, enabled, rq, posted, runs, snapshots,
                   analyses, briefings, clock, calls, pc, wf, fetch, an, err,
                   asked, ingested>>

\* run_workflow_for_target called by anything but the worker's pass.
run_workflow_for_target(p, t) ==
    /\ node_fetch_history(p, t)
    /\ UNCHANGED pass

\* -------------------------------------------- api: review, and Slack
Reqs == {"a1", "a2"}

\* One client's request: where it stands, the briefing it names, the text
\* send_briefing_to_slack built, the status the webhook gave (0: none yet),
\* the HTTP status answered (0: none yet), and how many requests the client
\* has made.
NoRequest == [pc |-> "idle", briefing_id |-> NoId, via |-> None,
              title |-> None, executive_summary |-> None,
              status_code |-> 0, response |-> 0, served |-> 0]

\* The form an approve request carries, and the reason of a reject.
Forms == {[title |-> "T2", executive_summary |-> "S2", details_markdown |-> "D2"]}
Reasons == {"R"}
\* The briefing ids a request may name: every row's, and one with no row.
RequestedBriefings == Ids(briefings) \cup {Len(briefings) + 1}

RequestStarts(r) ==
    /\ rq[r].pc \in {"idle", "done", "raised"}
    /\ rq[r].served < MaxRequests

\* POST /review/{briefing_id}/approve, up to the end of its session.
approve_briefing(r, b, form) ==
    /\ RequestStarts(r)
    /\ IF b \notin Ids(briefings)
       THEN /\ rq' = [rq EXCEPT ![r] =
                        [NoRequest EXCEPT !.pc = "raised", !.briefing_id = b,
                                          !.via = "approve", !.response = 404,
                                          !.served = rq[r].served + 1]]
            /\ UNCHANGED briefings
       ELSE /\ briefings' = [briefings EXCEPT
                        ![b].title = form.title,
                        ![b].executive_summary = form.executive_summary,
                        ![b].details_markdown = form.details_markdown,
                        ![b].review_status = "approved"]
            /\ rq' = [rq EXCEPT ![r] =
                        [NoRequest EXCEPT !.pc = "send", !.briefing_id = b,
                                          !.via = "approve",
                                          !.served = rq[r].served + 1]]
    /\ UNCHANGED <<settings, targets, enabled, pass, posted, runs, snapshots,
                   analyses, clock, calls, pc, wf, fetch, an, err, asked,
                   ingested>>

\* POST /review/{briefing_id}/reject.
reject_briefing(r, b, reason) ==
    /\ RequestStarts(r)
    /\ IF b \notin Ids(briefings)
       THEN /\ rq' = [rq EXCEPT ![r] =
                        [NoRequest EXCEPT !.pc = "raised", !.briefing_id = b,
                                          !.via = "reject", !.response = 404,
                                          !.served = rq[r].served + 1]]
            /\ UNCHANGED briefings
       ELSE /\ briefings' = [briefings EXCEPT
                        ![b].review_status = "rejected",
                        ![b].details_markdown =
                            @ \o "[REJECTED REASON]" \o reason]
            /\ rq' = [rq EXCEPT ![r] =
                        [NoRequest EXCEPT !.pc = "done", !.briefing_id = b,
                                          !.via = "reject", !.response = 303,
                                          !.served = rq[r].served + 1]]
    /\ UNCHANGED <<settings, targets, enabled, pass, posted, runs, snapshots,
                   analyses, clock, calls, pc, wf, fetch, an, err, asked,
                   ingested>>

\* send_briefing_to_slack(briefing_id) called on its own.
send_direct(r, b) ==
    /\ RequestStarts(r)
    /\ rq' = [rq EXCEPT ![r] =
                [NoRequest EXCEPT !.pc = "send", !.briefing_id = b,
                                  !.via = "direct",
                                  !.served = rq[r].served + 1]]
    /\ UNCHANGED <<settings, targets, enabled, pass, posted, runs, snapshots,
                   analyses, briefings, clock, calls, pc, wf, fetch, an, err,
                   asked, ingested>>

\* tests/test_slack.py: the most recent briefing has its delivered-marker
\* reset, the session commits, and send_briefing_to_slack is called for it;
\* with no briefing stored the script logs an error and returns.
test_slack(r) ==
    /\ RequestStarts(r)
    /\ IF briefings = <<>>
       THEN /\ rq' = [rq EXCEPT ![r] =
                        [NoRequest EXCEPT !.pc = "done", !.via = "test",
                                          !.served = rq[r].served + 1]]
            /\ UNCHANGED briefings
       ELSE /\ briefings' = [briefings EXCEPT ![Len(briefings)].slack_ts = None]
            /\ rq' = [rq EXCEPT ![r] =
                        [NoRequest EXCEPT !.pc = "send",
                                          !.briefing_id = Len(briefings),
                                          !.via = "test",
                                          !.served = rq[r].served + 1]]
    /\ UNCHANGED <<settings, targets, enabled, pass, posted, runs, snapshots,
                   analyses, clock, calls, pc, wf, fetch, an, err, asked,
                   ingested>>

\* What the caller of send_briefing_to_slack answers once it returned.
Returned(via) == IF via = "approve" THEN 303 ELSE 0

\* Mutant: the delivered-marker not consulted.
AlreadyPostedIgnored(b) == FALSE

\* `if briefing.slack_ts:`
AlreadyPosted(b) == briefings[b].slack_ts # None

\* send_briefing_to_slack up to the request: the webhook setting, the row,
\* the delivered-marker, the text.
SendEntry(r) ==
    LET b == rq[r].briefing_id IN
    /\ rq[r].pc = "send"
    /\ rq' = [rq EXCEPT ![r] =
          IF ~settings.slack_webhook_url
          THEN [@ EXCEPT !.pc = "done", !.response = Returned(rq[r].via)]
          ELSE IF b \notin Ids(briefings)
          THEN [@ EXCEPT !.pc = "raised", !.response = 500]
          ELSE IF AlreadyPosted(b)
          THEN [@ EXCEPT !.pc = "done", !.response = Returned(rq[r].via)]
          ELSE [@ EXCEPT !.pc = "posting",
                         !.title = briefings[b].title,
                         !.executive_summary = briefings[b].executive_summary]]
    /\ UNCHANGED <<settings, targets, enabled, pass, posted, runs, snapshots,
                   analyses, briefings, clock, calls, pc, wf, fetch, an, err,
                   asked, ingested>>

\* What the webhook can give, and what a message is.
SlackOutcomes == {Response(200, EmptyDict), Response(500, EmptyDict), TransportError}
Message(b, title, executive_summary) ==
    [briefing_id |-> b, title |-> title, executive_summary |-> executive_summary]

\* Mutant: the webhook's status not looked at.
PostFailedNever(resp) == FALSE

\* `if resp.status_code >= 300:`
PostFailed(resp) == resp.status_code >= 300

\* The request to the webhook and what follows it: an httpx error leaves
\* the function, a status of 300 or more is logged, anything else sets
\* slack_ts and commits.
SendPost(r, o) ==
    LET b == rq[r].briefing_id IN
    /\ rq[r].pc = "posting"
    /\ IF o.kind = "error"
       THEN /\ rq' = [rq EXCEPT ![r].pc = "raised", ![r].response = 500]
            /\ UNCHANGED <<posted, briefings>>
       ELSE IF PostFailed(o)
       THEN /\ rq' = [rq EXCEPT ![r].pc = "done",
                                ![r].status_code = o.status_code,
                                ![r].response = Returned(rq[r].via)]
            /\ UNCHANGED <<posted, briefings>>
       ELSE /\ posted' = IF o.status_code < 300
                         THEN Append(posted,
                                Message(b, rq[r].title, rq[r].executive_summary))
                         ELSE posted
            /\ briefings' = [briefings EXCEPT ![b].slack_ts = "posted"]
            /\ rq' = [rq EXCEPT ![r].pc = "done",
                                ![r].status_code = o.status_code,
                                ![r].response = Returned(rq[r].via)]
    /\ UNCHANGED <<settings, targets, enabled, pass, runs, snapshots, analyses,
                   clock, calls, pc, wf, fetch, an, err, asked, ingested>>

\* No worker pass and no API request: every target enabled, nothing sent.
Unattended ==
    /\ enabled = targets
    /\ pass = NoPass
    /\ rq = [r \in Reqs |-> NoRequest]
    /\ posted = <<>>

\* ------------------------------------------------------ specifications
FastModel == "gpt-4o-mini"
SmartModel == "gpt-4o"
Settings(fast, smart, openai_key, firecrawl_key, slack_webhook) ==
    [openai_model_fast |-> fast, openai_model_smart |-> smart,
     openai_api_key |-> openai_key, firecrawl_api_key |-> firecrawl_key,
     slack_webhook_url |-> slack_webhook]

EmptyTables ==
    /\ runs = <<>>
    /\ snapshots = <<>>
    /\ analyses = <<>>
    /\ briefings = <<>>
    /\ clock = 0
    /\ calls = 0
    /\ ingested = {}

AllIdle ==
    /\ pc = [p \in Procs |-> "idle"]
    /\ wf = [p \in Procs |-> WorkflowState(NoId)]
    /\ fetch = [p \in Procs |-> NoFetch]
    /\ an = [p \in Procs |-> NoAnalyze]
    /\ err = [p \in Procs |-> NoErr]
    /\ asked = [p \in Procs |-> <<>>]

\* The pipeline: the default configuration with both credentials set, one
\* target, empty tables, two tasks that invoke the workflow.
Init ==
    /\ settings = Settings(FastModel, SmartModel, TRUE, TRUE, TRUE)
    /\ targets = {1}
    /\ EmptyTables
    /\ AllIdle
    /\ Unattended

Next ==
    \E p \in Procs :
        \/ \E t \in RequestedIds : run_workflow_for_target(p, t)
        \/ node_scrape(p)
        \/ ScrapeUrlEntry(p)
        \/ \E o \in PipelineOutcomes : ScrapeAttempt(p, o)
        \/ IngestSelect(p)
        \/ IngestInsert(p)
        \/ \E out \in PipelineFast : AnalyzeFast(p, out)
        \/ \E out \in PipelineSmart : AnalyzeEscalate(p, out)
        \/ AnalyzePersist(p)
        \/ node_update_run_status(p)
        \/ \E out \in PipelineDrafts : node_draft_briefing(p, out)
        \/ node_human_gate(p)

Spec == Init /\ [][Next]_vars

\* The snapshot store under concurrent invocations: no OPENAI_API_KEY, so
\* every invocation stops at the analyst call; two targets.
InitIngest ==
    /\ settings = Settings(FastModel, SmartModel, FALSE, TRUE, TRUE)
    /\ targets = {1, 2}
    /\ EmptyTables
    /\ AllIdle
    /\ Unattended

NextIngest ==
    \E p \in Procs :
        \/ \E t \in RequestedIds : run_workflow_for_target(p, t)
        \/ node_scrape(p)
        \/ ScrapeUrlEntry(p)
        \/ \E o \in PipelineOutcomes : ScrapeAttempt(p, o)
        \/ IngestSelect(p)
        \/ IngestInsert(p)
        \/ \E out \in PipelineFast : AnalyzeFast(p, out)

SpecIngest == InitIngest /\ [][NextIngest]_vars

\* ingest_target(t) called on its own, outside the graph: no Run, and the
\* snapshot goes back to the caller.
ingest_target(p, t) ==
    /\ pc[p] \in {"idle", "done", "raised"}
    /\ calls < MaxCalls
    /\ calls' = calls + 1
    /\ wf' = [wf EXCEPT ![p] = WorkflowState(t)]
    /\ fetch' = [fetch EXCEPT ![p] = NoFetch]
    /\ an' = [an EXCEPT ![p] = NoAnalyze]
    /\ asked' = [asked EXCEPT ![p] = <<>>]
    /\ err' = [err EXCEPT ![p] = NoErr]
    /\ pc' = [pc EXCEPT ![p] = "scrape"]
    /\ UNCHANGED <<settings, targets, enabled, pass, rq, posted, runs, snapshots,
                   analyses, briefings, clock, ingested>>

IngestTargetReturns(p) ==
    /\ pc[p] = "analyze"
    /\ wf[p].run_id = NoId
    /\ pc' = [pc EXCEPT ![p] = "done"]
    /\ UNCHANGED <<settings, targets, enabled, pass, rq, posted, runs, snapshots,
                   analyses, briefings, clock, calls, wf, fetch, an, err, asked,
                   ingested>>

\* The snapshot store entered both ways, through the graph and directly,
\* for the ids of the two targets and an id with no row.
NextStore ==
    \E p \in Procs :
        \/ \E t \in RequestedIds : run_workflow_for_target(p, t)
        \/ \E t \in RequestedIds : ingest_target(p, t)
        \/ node_scrape(p)
        \/ ScrapeUrlEntry(p)
        \/ \E o \in PipelineOutcomes : ScrapeAttempt(p, o)
        \/ IngestSelect(p)
        \/ IngestInsert(p)
        \/ IngestTargetReturns(p)
        \/ \E out \in PipelineFast : wf[p].run_id # NoId /\ AnalyzeFast(p, out)

SpecStore == InitIngest /\ [][NextStore]_vars

\* scrape_url called on its own with max_retries and backoff_seconds of the
\* caller's choice, against every kind of upstream outcome.
Caller == CHOOSE p \in Procs : TRUE
InitFetch ==
    /\ settings \in {Settings(FastModel, SmartModel, TRUE, k, TRUE) : k \in BOOLEAN}
    /\ targets = {1}
    /\ EmptyTables
    /\ Unattended
    /\ wf = [p \in Procs |-> WorkflowState(NoId)]
    /\ an = [p \in Procs |-> NoAnalyze]
    /\ err = [p \in Procs |-> NoErr]
    /\ asked = [p \in Procs |-> <<>>]
    /\ pc = [p \in Procs |-> IF p = Caller THEN "scrape_url" ELSE "idle"]
    /\ \E m \in 0..MaxRetriesBound, b \in Backoffs :
          fetch = [p \in Procs |-> IF p = Caller THEN FetchEntry(m, b) ELSE NoFetch]

NextFetch ==
    \E p \in Procs :
        \/ ScrapeUrlEntry(p)
        \/ \E o \in FetchOutcomes : ScrapeAttempt(p, o)

SpecFetch == InitFetch /\ [][NextFetch]_vars

\* node_analyze and the nodes after it, for one invocation whose Run and
\* Snapshot are stored, against every analyst reply; the smart model is
\* distinct from the fast one or the same, the model credential set or not.
InitAnalyze ==
    /\ settings \in {Settings(FastModel, m, k, TRUE, TRUE) :
                        m \in {SmartModel, FastModel}, k \in BOOLEAN}
    /\ targets = {1}
    /\ runs = <<NewRun(1, 0)>>
    /\ snapshots = <<NewSnapshot(1, "C1", 1)>>
    /\ analyses = <<>>
    /\ briefings = <<>>
    /\ clock = 2
    /\ calls = 1
    /\ ingested = {[target_id |-> 1, content |-> "C1", id |-> 1]}
    /\ Unattended
    /\ pc = [p \in Procs |-> IF p = Caller THEN "analyze" ELSE "idle"]
    /\ wf = [p \in Procs |->
                IF p = Caller
                THEN [WorkflowState(1) EXCEPT !.run_id = 1, !.snapshot_id = 1]
                ELSE WorkflowState(NoId)]
    /\ fetch = [p \in Procs |-> NoFetch]
    /\ an = [p \in Procs |-> NoAnalyze]
    /\ err = [p \in Procs |-> NoErr]
    /\ asked = [p \in Procs |-> <<>>]

NextAnalyze ==
    \E p \in Procs :
        \/ \E out \in AnalystFast : AnalyzeFast(p, out)
        \/ \E out \in AnalystSmart : AnalyzeEscalate(p, out)
        \/ AnalyzePersist(p)
        \/ node_update_run_status(p)
        \/ \E out \in DraftReplies : node_draft_briefing(p, out)
        \/ node_human_gate(p)

SpecAnalyze == InitAnalyze /\ [][NextAnalyze]_vars

\* The worker: one task that makes passes over the enabled targets, each
\* invocation running the whole pipeline; two targets, any of them enabled.
InitWorker ==
    /\ settings = Settings(FastModel, SmartModel, TRUE, TRUE, TRUE)
    /\ targets = {1, 2}
    /\ EmptyTables
    /\ AllIdle
    /\ enabled \in SUBSET targets
    /\ pass = NoPass
    /\ rq = [r \in Reqs |-> NoRequest]
    /\ posted = <<>>

NextWorker ==
    \E p \in {Worker} :
        \/ process_targets_once(p)
        \/ WorkerCall(p)
        \/ WorkerResume(p)
        \/ node_scrape(p)
        \/ ScrapeUrlEntry(p)
        \/ \E o \in PipelineOutcomes : ScrapeAttempt(p, o)
        \/ IngestSelect(p)
        \/ IngestInsert(p)
        \/ \E out \in PipelineFast : AnalyzeFast(p, out)
        \/ \E out \in PipelineSmart : AnalyzeEscalate(p, out)
        \/ AnalyzePersist(p)
        \/ node_update_run_status(p)
        \/ \E out \in PipelineDrafts : node_draft_briefing(p, out)
        \/ node_human_gate(p)

SpecWorker == InitWorker /\ [][NextWorker]_vars

\* A Run of target t that went the whole way on a drift decision, with the
\* rows it stored: the state two such invocations leave behind.
DriftRun(t, now) ==
    [NewRun(t, now) EXCEPT !.ended_at = now + 2, !.status = StatusFor("drift")]

\* The review API and the Slack publisher over two pending briefings; the
\* webhook configured or not; two clients whose requests interleave.
InitReview ==
    /\ settings \in {Settings(FastModel, SmartModel, TRUE, TRUE, k) : k \in BOOLEAN}
    /\ targets = {1}
    /\ runs = <<DriftRun(1, 0), DriftRun(1, 3)>>
    /\ snapshots = <<NewSnapshot(1, "C1", 1), NewSnapshot(1, "C2", 4)>>
    /\ analyses = <<NewAnalysis(1, FastModel, 80, "drift", Summary(EmptyDict)),
                    NewAnalysis(2, FastModel, 80, "drift", Summary(EmptyDict))>>
    /\ briefings = <<NewBriefing(1, FullDraft), NewBriefing(2, FullDraft)>>
    /\ clock = 6
    /\ calls = 2
    /\ ingested = {[target_id |-> 1, content |-> "C1", id |-> 1],
                   [target_id |-> 1, content |-> "C2", id |-> 2]}
    /\ AllIdle
    /\ Unattended

NextReview ==
    \E r \in Reqs :
        \/ \E b \in RequestedBriefings, form \in Forms : approve_briefing(r, b, form)
        \/ \E b \in RequestedBriefings, reason \in Reasons : reject_briefing(r, b, reason)
        \/ \E b \in RequestedBriefings : send_direct(r, b)
        \/ test_slack(r)
        \/ SendEntry(r)
        \/ \E o \in SlackOutcomes : SendPost(r, o)

SpecReview == InitReview /\ [][NextReview]_vars

\* The review API alone: approve and reject requests, and the publisher the
\* approve endpoint calls.
NextReviewApi ==
    \E r \in Reqs :
        \/ \E b \in RequestedBriefings, form \in Forms : approve_briefing(r, b, form)
        \/ \E b \in RequestedBriefings, reason \in Reasons : reject_briefing(r, b, reason)
        \/ SendEntry(r)
        \/ \E o \in SlackOutcomes : SendPost(r, o)

SpecReviewApi == InitReview /\ [][NextReviewApi]_vars

\* The history query: MaxRows snapshots of two targets, each of a page of
\* its own, fetched in any order of time (the hosts' clocks need not agree
\* with the order of the ids), and one invocation about to analyse any of
\* them.
StoredPages == <<"P1", "P2", "P3", "P4", "P5", "P6", "P7", "P8">>
InitHistory ==
    /\ settings = Settings(FastModel, SmartModel, TRUE, TRUE, TRUE)
    /\ targets = {1, 2}
    /\ \E of \in [1..MaxRows -> targets], at \in Orders(1..MaxRows) :
          snapshots = [k \in 1..MaxRows |-> NewSnapshot(of[k], StoredPages[k], at[k])]
    /\ \E s \in 1..MaxRows :
          /\ runs = <<NewRun(snapshots[s].target_id, MaxRows + 1)>>
          /\ wf = [p \in Procs |->
                    IF p = Caller
                    THEN [WorkflowState(snapshots[s].target_id)
                            EXCEPT !.run_id = 1, !.snapshot_id = s]
                    ELSE WorkflowState(NoId)]
    /\ analyses = <<>>
    /\ briefings = <<>>
    /\ clock = MaxRows + 2
    /\ calls = 1
    /\ ingested = {}
    /\ pc = [p \in Procs |-> IF p = Caller THEN "analyze" ELSE "idle"]
    /\ fetch = [p \in Procs |-> NoFetch]
    /\ an = [p \in Procs |-> NoAnalyze]
    /\ err = [p \in Procs |-> NoErr]
    /\ asked = [p \in Procs |-> <<>>]
    /\ Unattended

NextHistory ==
    \E p \in Procs : \E out \in PipelineFast : AnalyzeFast(p, out)

SpecHistory == InitHistory /\ [][NextHistory]_vars

\* ---------------------------------------------------------------- claims
Finalized(r) == runs[r].ended_at # NoTime
BriefingsOf(r) == {b \in Ids(briefings) : briefings[b].run_id = r}
Over(p) == pc[p] \in {"done", "raised"}

\* C1: a Run whose stored decision is no-change has no Briefing row, and once
\* finalized its status is NO_CHANGE (the pipeline stops after the status
\* update and never drafts).
C1_NoChangeStopsWithoutBriefing ==
    \A a \in Ids(analyses) :
        analyses[a].decision = "no_change" =>
            /\ BriefingsOf(analyses[a].run_id) = {}
            /\ Finalized(analyses[a].run_id) =>
                    runs[analyses[a].run_id].status = "no_change"

\* C2: an invocation whose final decision is drift and whose drafting
\* succeeded has its Run in status DRIFT and exactly one Briefing for that
\* Run, with review_status pending.
C2_DriftYieldsOnePendingBriefing ==
    \A p \in Procs :
        (pc[p] \in {"human_gate", "done"} /\ wf[p].decision = "drift") =>
            /\ runs[wf[p].run_id].status = "drift"
            /\ Cardinality(BriefingsOf(wf[p].run_id)) = 1
            /\ \A b \in BriefingsOf(wf[p].run_id) :
                    briefings[b].review_status = "pending"

C2_Witness ==
    \E p \in Procs :
        /\ pc[p] = "done"
        /\ wf[p].decision = "drift"
        /\ wf[p].run_id = 2
        /\ Len(briefings) = 2

\* C3: when an invocation raised after its Run row was created, that Run is
\* finalized with status ERROR and error_message holds the failure.
C3_FailureFinalizesRunAsError ==
    \A p \in Procs :
        (pc[p] = "raised" /\ wf[p].run_id # NoId) =>
            /\ Finalized(wf[p].run_id)
            /\ runs[wf[p].run_id].status = "error"
            /\ runs[wf[p].run_id].error_message = err[p]

\* C4: once an invocation has returned or raised, its Run has ended_at set
\* and a terminal status (NO_CHANGE, DRIFT or ERROR).
C4_RunReachesTerminalState ==
    \A p \in Procs :
        (Over(p) /\ wf[p].run_id # NoId) =>
            /\ runs[wf[p].run_id].ended_at # NoTime
            /\ runs[wf[p].run_id].status \in {"no_change", "drift", "error"}

\* C5: once the fast model has answered, a second (smart-model) call is due
\* or made if and only if the smart model is distinct from the fast one and
\* the fast score lies in [0.45, 0.65]; never more than two calls are made.
C5_EscalatesExactlyInGrayZone ==
    \A p \in Procs :
        an[p].fast_score # NoScore =>
            /\ Len(asked[p]) <= 2
            /\ (pc[p] = "analyze_escalate" \/ Len(asked[p]) = 2)
                  <=> /\ settings.openai_model_smart # settings.openai_model_fast
                      /\ 45 <= an[p].fast_score
                      /\ an[p].fast_score <= 65

C5_Witness ==
    \E p \in Procs :
        /\ an[p].fast_score = 65
        /\ asked[p] = <<settings.openai_model_fast, settings.openai_model_smart>>
        /\ pc[p] = "analyze_persist"

\* C6: the stored Analysis names the model that produced the final decision:
\* the smart model when the invocation escalated, the fast model otherwise.
C6_StoredModelIsTheOneThatDecided ==
    \A p \in Procs :
        wf[p].analysis_id # NoId =>
            analyses[wf[p].analysis_id].model =
                IF Len(asked[p]) = 2 THEN settings.openai_model_smart
                ELSE settings.openai_model_fast

\* C7: with max_retries >= 1 scrape_url never issues more than max_retries
\* requests, and against an upstream whose every answer is a transient
\* status or a transport error it fails exactly when max_retries requests
\* have been issued.
Retryable(o) == o.kind = "error" \/ o.status_code \in {429, 500, 502, 503, 504}
OnlyRetryable(log) == \A k \in 1..Len(log) : Retryable(log[k])

C7_AtMostMaxRetriesRequests ==
    \A p \in Procs :
        fetch[p].max_retries >= 1 =>
            /\ Len(fetch[p].log) <= fetch[p].max_retries
            /\ (settings.firecrawl_api_key /\ OnlyRetryable(fetch[p].log)) =>
                    (pc[p] = "raised" <=> Len(fetch[p].log) = fetch[p].max_retries)

C7_Witness ==
    \E p \in Procs :
        /\ pc[p] = "raised"
        /\ fetch[p].max_retries = 3
        /\ Len(fetch[p].log) = 3
        /\ \A k \in 1..3 : fetch[p].log[k].status_code = 503

\* C8: every retry is preceded by a wait: the waits so far are base, 2*base,
\* 4*base, ..., one before each attempt after the first.
C8_BackoffBeforeEveryRetry ==
    \A p \in Procs :
        LET f == fetch[p]
            retries == IF pc[p] = "fetching" THEN Len(f.log) ELSE Len(f.log) - 1
        IN  Len(f.log) >= 1 =>
                /\ Len(f.sleeps) = retries
                /\ \A k \in 1..Len(f.sleeps) :
                        f.sleeps[k] = f.backoff_seconds * Pow2(k - 1)

\* C9: an ingest of content that an earlier ingest for the same target has
\* already returned finds the stored snapshot: it returns the same id and
\* writes nothing, so the snapshots table is unchanged by it.
AlreadyIngested(p) ==
    {x \in ingested :
        x.target_id = wf[p].target_id /\ x.content = fetch[p].content}

C9_SecondIngestReturnsSameSnapshot ==
    [][\A p \in Procs :
          (pc[p] = "scraped" /\ pc'[p] # "scraped" /\ AlreadyIngested(p) # {}) =>
              /\ pc'[p] = "analyze"
              /\ snapshots' = snapshots
              /\ \A x \in AlreadyIngested(p) : wf'[p].snapshot_id = x.id]_vars

C9_Witness ==
    \E p \in Procs :
        /\ pc[p] = "analyze"
        /\ wf[p].run_id = 2
        /\ wf[p].snapshot_id = 1
        /\ Len(snapshots) = 1
        /\ snapshots[1].fetched_at < runs[2].started_at

\* C10: at most one stored snapshot per (target, content hash) pair, under
\* every interleaving of the invocations.
C10_OneSnapshotPerTargetAndHash ==
    \A i, j \in Ids(snapshots) :
        (/\ snapshots[i].target_id = snapshots[j].target_id
         /\ snapshots[i].content_hash = snapshots[j].content_hash) => i = j

C10_Witness ==
    \E p \in Procs :
        /\ pc[p] = "raised"
        /\ err[p].why = "uq_snapshot_target_hash"
        /\ ExistingSnapshots(wf[p].target_id,
                             _hash_content(fetch[p].content)) # {}

\* A Run is in flight while the invocation that created it is still running.
InFlight(r) ==
    \E p \in Procs : wf[p].run_id = r /\ pc[p] \notin {"idle", "done", "raised"}

\* C11: at any time at most one Run per target is in flight: no two Runs of
\* one target are both started and still being worked on.
C11_AtMostOneInFlightRunPerTarget ==
    \A r1, r2 \in Ids(runs) :
        (/\ runs[r1].target_id = runs[r2].target_id
         /\ InFlight(r1)
         /\ InFlight(r2)) => r1 = r2

AnalysesOf(r) == {a \in Ids(analyses) : analyses[a].run_id = r}

\* C12: every stored Analysis has its drift score within [0, 1], and an
\* invocation whose persist was refused for the score range has left no
\* Analysis row for its Run.
C12_PersistedScoreWithinRange ==
    /\ \A a \in Ids(analyses) :
          ScoreMin <= analyses[a].drift_score /\ analyses[a].drift_score <= ScoreMax
    /\ \A p \in Procs :
          (pc[p] = "raised" /\ err[p].why = "ck_drift_score_range") =>
              /\ AnalysesOf(wf[p].run_id) = {}
              /\ wf[p].analysis_id = NoId

C12_Witness ==
    \E p \in Procs :
        /\ pc[p] = "raised"
        /\ err[p].why = "ck_drift_score_range"
        /\ an[p].drift_score > ScoreMax
        /\ Len(asked[p]) = 2

PostsOf(b) == {k \in 1..Len(posted) : posted[k].briefing_id = b}

\* C13: over any sequence or interleaving of approve requests and
\* send_briefing_to_slack calls, the webhook accepts at most one message per
\* briefing.
C13_AtMostOneMessagePerBriefing ==
    \A b \in Ids(briefings) : Cardinality(PostsOf(b)) <= 1

\* C14: a pass over the enabled targets is never ended by an invocation
\* that raised: the invocations are made in list order, one per listed
\* target, and a pass that has returned has made one for every listed target,
\* whichever of them raised.
C14_PassSurvivesFailures ==
    /\ pass.state # "aborted"
    /\ \A i, j \in 1..Len(pass.targets) :
          pass.targets[i] = pass.targets[j] => i = j
    /\ {pass.targets[i] : i \in 1..Len(pass.targets)} \subseteq enabled
    /\ pass.state = "running" =>
          /\ Len(pass.outcomes) = pass.next - 1
          /\ pass.next <= Len(pass.targets)
          /\ pass.at = "awaiting" =>
                wf[Worker].target_id = pass.targets[pass.next]
    /\ pass.state = "returned" =>
          /\ Len(pass.outcomes) = Len(pass.targets)
          /\ {pass.targets[i] : i \in 1..Len(pass.targets)} = enabled

C14_Witness ==
    /\ pass.state = "returned"
    /\ Len(pass.targets) = 2
    /\ pass.outcomes = <<"raised", "done">>

\* A request that gave no page: an httpx error, a status other than 200, or
\* a 200 with no text.
Failed(o) ==
    \/ o.kind = "error"
    \/ o.status_code # 200
    \/ \A k \in {"data.markdown", "markdown", "data.content", "content"} :
          Get(o.data, k, "") = ""
AllFailed(log) == \A k \in 1..Len(log) : Failed(log[k])

\* C15: when the last of an invocation's max_retries requests has failed
\* like all before it, the invocation raises out of the fetch step, the step
\* changes none of the snapshot, analysis and briefing tables, and the Run
\* has no Snapshot, Analysis or Briefing.
C15_FailedFetchStoresNothing ==
    [][\A p \in Procs :
          (/\ pc[p] = "fetching"
           /\ Len(fetch'[p].log) = Len(fetch[p].log) + 1
           /\ Len(fetch'[p].log) = fetch[p].max_retries
           /\ AllFailed(fetch'[p].log))
          => /\ pc'[p] = "raised"
             /\ err'[p].type = "FirecrawlError"
             /\ snapshots' = snapshots
             /\ analyses' = analyses
             /\ briefings' = briefings
             /\ wf'[p].snapshot_id = NoId
             /\ wf'[p].analysis_id = NoId
             /\ wf'[p].briefing_id = NoId
             /\ \A a \in Ids(analyses) : analyses[a].run_id # wf[p].run_id
             /\ \A b \in Ids(briefings) : briefings[b].run_id # wf[p].run_id
      ]_vars

C15_Witness ==
    \E p \in Procs :
        /\ pc[p] = "raised"
        /\ err[p].why = "transient"
        /\ err[p].attempts = DefaultMaxRetries
        /\ \A k \in 1..Len(fetch[p].log) : fetch[p].log[k].status_code = 503
        /\ wf[p].run_id = 2
        /\ Len(snapshots) = 1
        /\ Len(analyses) = 1

\* What the fetch log says, read off the responses alone.
NoText(data) ==
    \A k \in {"data.markdown", "markdown", "data.content", "content"} :
        Get(data, k, "") = ""
EmptySuccess(o) == o.kind = "response" /\ o.status_code = 200 /\ NoText(o.data)
TransientStatus(o) == o.kind = "response" /\ o.status_code \in TransientCodes
OtherStatus(o) ==
    o.kind = "response" /\ o.status_code # 200 /\ o.status_code \notin TransientCodes
\* The backoff waits due before request k: one per transient status so far.
WaitsBefore(log, k) ==
    Cardinality({j \in 1..(k - 1) : TransientStatus(log[j])})

\* C16: a 200 response with no text under any probed shape is the last
\* request of its call: the call has raised for empty content at that
\* attempt, and no wait was added after it.
C16_EmptySuccessIsPermanent ==
    \A p \in Procs : \A k \in 1..Len(fetch[p].log) :
        EmptySuccess(fetch[p].log[k]) =>
            /\ k = Len(fetch[p].log)
            /\ pc[p] = "raised"
            /\ err[p].why = "empty_content"
            /\ err[p].attempts = k
            /\ Len(fetch[p].sleeps) = WaitsBefore(fetch[p].log, k)

C16_Witness ==
    \E p \in Procs :
        /\ pc[p] = "raised"
        /\ err[p].why = "empty_content"
        /\ err[p].attempts = 2
        /\ fetch[p].max_retries = 3
        /\ fetch[p].log[2] = Response(200, Page(""))
        /\ Len(fetch[p].sleeps) = 1

\* C17: a response whose status is neither 200 nor transient is the last
\* request of its call: the call has raised at that attempt with the status
\* and the body in the error, and no wait was added after it.
C17_OtherStatusIsPermanent ==
    \A p \in Procs : \A k \in 1..Len(fetch[p].log) :
        OtherStatus(fetch[p].log[k]) =>
            /\ k = Len(fetch[p].log)
            /\ pc[p] = "raised"
            /\ err[p].why = "non_success"
            /\ err[p].status = fetch[p].log[k].status_code
            /\ err[p].body = fetch[p].log[k].data
            /\ err[p].attempts = k
            /\ Len(fetch[p].sleeps) = WaitsBefore(fetch[p].log, k)

C17_Witness ==
    \E p \in Procs :
        /\ pc[p] = "raised"
        /\ err[p].status = 403
        /\ err[p].body # EmptyDict
        /\ err[p].attempts = 2
        /\ fetch[p].max_retries = 3
        /\ Len(fetch[p].sleeps) = 1

\* The snapshot an invocation was handed was stored before its Run began:
\* the fetch found content already held for the target.
HandedExistingSnapshot(p) ==
    /\ wf[p].run_id # NoId
    /\ wf[p].snapshot_id # NoId
    /\ snapshots[wf[p].snapshot_id].fetched_at < runs[wf[p].run_id].started_at

\* C18: an invocation whose fetch returned an already stored snapshot makes
\* no model call and stores no Analysis and no Briefing.
C18_UnchangedContentIsNotReanalysed ==
    \A p \in Procs :
        HandedExistingSnapshot(p) =>
            /\ asked[p] = <<>>
            /\ AnalysesOf(wf[p].run_id) = {}
            /\ BriefingsOf(wf[p].run_id) = {}

\* C19: there is at most one Run row per invocation made, and an invocation
\* for an existing target that is over has its own Run row, finalized (its
\* ended_at and final status written); requests retried inside the fetch
\* add no Run.
C19_OneRunFinalizedOncePerInvocation ==
    /\ Len(runs) <= calls
    /\ \A p, q \in Procs :
          (wf[p].run_id # NoId /\ wf[p].run_id = wf[q].run_id) => p = q
    /\ \A p \in Procs :
          (Over(p) /\ TargetExists(wf[p].target_id)) =>
              /\ wf[p].run_id \in Ids(runs)
              /\ runs[wf[p].run_id].target_id = wf[p].target_id
              /\ runs[wf[p].run_id].ended_at # NoTime
              /\ runs[wf[p].run_id].status # "success"

\* C20: every Run has at most one Analysis, and an invocation that got
\* through the analysis step has exactly one for its Run, the one it was
\* handed, whether one model was called or two.
C20_OneAnalysisPerRun ==
    /\ \A r \in Ids(runs) : Cardinality(AnalysesOf(r)) <= 1
    /\ \A p \in Procs :
          wf[p].analysis_id # NoId =>
              AnalysesOf(wf[p].run_id) = {wf[p].analysis_id}
    /\ \A p \in Procs :
          pc[p] \in {"update_run_status", "draft_briefing", "human_gate", "done"}
              => wf[p].analysis_id # NoId

C20_Witness ==
    \E p \in Procs :
        /\ pc[p] = "done"
        /\ Len(asked[p]) = 2
        /\ wf[p].run_id = 2
        /\ AnalysesOf(2) = {wf[p].analysis_id}
        /\ Len(analyses) = 2

\* C21: no step of the review API or the Slack publisher changes a
\* Briefing's title, executive summary, details body or risk level, adds or
\* removes a Briefing, or changes a Target, Snapshot, Run or Analysis row.
C21_ReviewTouchesOnlyReviewFields ==
    [][/\ Len(briefings') = Len(briefings)
       /\ \A b \in Ids(briefings) :
             /\ briefings'[b].run_id = briefings[b].run_id
             /\ briefings'[b].title = briefings[b].title
             /\ briefings'[b].executive_summary = briefings[b].executive_summary
             /\ briefings'[b].details_markdown = briefings[b].details_markdown
             /\ briefings'[b].risk_level = briefings[b].risk_level
       /\ UNCHANGED <<targets, enabled, snapshots, runs, analyses>>
      ]_vars

\* A target is due at `now` if it has no prior run or its last run started
\* more than its schedule_minutes before.
Due(t, now) ==
    \/ t \notin DOMAIN last_run_map
    \/ now - last_run_map[t] > schedule_minutes(t)

\* C22: the list a pass starts with holds only enabled targets that are due
\* at that moment.
C22_PassTakesOnlyDueTargets ==
    [][pass'.n = pass.n + 1 =>
          \A i \in 1..Len(pass'.targets) :
              /\ pass'.targets[i] \in enabled
              /\ Due(pass'.targets[i], clock')
      ]_vars

\* C23: an invocation of the pipeline or of ingest_target for an id with no
\* target row has issued no fetch request, has raised not-found as soon as
\* the row was looked up, and has no Run or Snapshot; no Run and no Snapshot
\* row names a target that does not exist.
C23_UnknownTargetIsRefused ==
    /\ \A p \in Procs :
          (wf[p].target_id # NoId /\ wf[p].target_id \notin targets) =>
              /\ pc[p] \in {"scrape", "raised"}
              /\ pc[p] = "raised" =>
                    err[p].type = "ValueError" /\ err[p].why = "target_not_found"
              /\ fetch[p].log = <<>>
              /\ wf[p].run_id = NoId
              /\ wf[p].snapshot_id = NoId
              /\ wf[p].analysis_id = NoId
              /\ wf[p].briefing_id = NoId
    /\ \A r \in Ids(runs) : runs[r].target_id \in targets
    /\ \A i \in Ids(snapshots) : snapshots[i].target_id \in targets

C23_Witness ==
    \E p, q \in Procs :
        /\ pc[p] = "raised"
        /\ err[p].why = "target_not_found"
        /\ wf[p].target_id \notin targets
        /\ pc[q] = "done"
        /\ wf[q].snapshot_id = 1
        /\ Len(runs) = 0
        /\ Len(snapshots) = 1

\* C24: the fetcher waits only between requests: a call that has ended
\* (returned or raised) has waited once per transient status before its last
\* request and not after it, a call never waits max_retries times, and a call
\* that has waited as often as it has asked is about to ask again.
C24_NoWaitAfterTheLastAttempt ==
    \A p \in Procs :
        LET f == fetch[p]
            n == Len(f.log)
        IN  /\ Len(f.sleeps) <= n
            /\ (n >= 1 /\ Len(f.sleeps) = n) => pc[p] = "fetching"
            /\ (n >= 1 /\ pc[p] \in {"raised", "scraped"}) =>
                   Len(f.sleeps) = WaitsBefore(f.log, n)
            /\ f.max_retries >= 1 => Len(f.sleeps) <= f.max_retries - 1

C24_Witness ==
    \E p \in Procs :
        /\ pc[p] = "scraped"
        /\ fetch[p].max_retries = 3
        /\ Len(fetch[p].log) = 3
        /\ Len(fetch[p].sleeps) = 2

\* The invocation that created Run r is over.
InvocationOver(r) == \E p \in Procs : wf[p].run_id = r /\ Over(p)

\* C25: a finalized Run with status DRIFT whose invocation is over has
\* exactly one Briefing.
C25_FinalizedDriftRunHasBriefing ==
    \A r \in Ids(runs) :
        (Finalized(r) /\ runs[r].status = "drift" /\ InvocationOver(r)) =>
            Cardinality(BriefingsOf(r)) = 1

\* The other snapshots of the target of snapshot s.
OthersOf(s) ==
    {i \in Ids(snapshots) : i # s /\ snapshots[i].target_id = snapshots[s].target_id}

\* C26: the history found for snapshot S holds min(3, number of other
\* snapshots of S's target) snapshots, all of S's target, none S, no one
\* twice, in descending order of fetch time, none older than one left out.
C26_HistoryIsThreeMostRecentOthers ==
    \A p \in Procs :
        pc[p] \in {"analyze_escalate", "analyze_persist"} =>
            LET h == an[p].history
                s == wf[p].snapshot_id
                taken == {h[k] : k \in 1..Len(h)}
            IN  /\ Len(h) <= HistoryLimit
                /\ Len(h) = IF Cardinality(OthersOf(s)) < HistoryLimit
                            THEN Cardinality(OthersOf(s)) ELSE HistoryLimit
                /\ taken \subseteq OthersOf(s)
                /\ Cardinality(taken) = Len(h)
                /\ \A k, l \in 1..Len(h) :
                      k < l => snapshots[h[k]].fetched_at >= snapshots[h[l]].fetched_at
                /\ \A i \in OthersOf(s) \ taken : \A j \in taken :
                      snapshots[i].fetched_at <= snapshots[j].fetched_at

C26_Witness ==
    \E p \in Procs :
        /\ pc[p] = "analyze_persist"
        /\ Len(an[p].history) = HistoryLimit
        /\ Cardinality(OthersOf(wf[p].snapshot_id)) = HistoryLimit + 1
        /\ an[p].history[1] < an[p].history[2]

ListKeys == {"change_types", "evidence", "recommended_followups"}
LastAnalysis == analyses'[Len(analyses')]

\* C27 (as stated): when the result the Analysis is built from omits
\* decision the stored decision is no-change, when it omits drift_score the
\* stored score is 0 and only one model was called, and an omitted list is
\* stored empty.
C27_OmittedFieldsTakeFixedDefaults ==
    [][\A p \in Procs :
          (pc[p] = "analyze_persist" /\ pc'[p] = "update_run_status") =>
              /\ "decision" \notin DOMAIN an[p].result =>
                    LastAnalysis.decision = "no_change"
              /\ "drift_score" \notin DOMAIN an[p].result =>
                    LastAnalysis.drift_score = 0 /\ Len(asked[p]) = 1
              /\ \A k \in ListKeys :
                    k \notin DOMAIN an[p].result =>
                        LastAnalysis.diff_summary_json[k] = <<>>
      ]_vars

\* C27 (amended): a fast-model result that omits decision gives no-change
\* and one that omits drift_score gives 0 and no escalation; a smart-model
\* result that omits either keeps the fast model's value; the Analysis stores
\* the decision and score so reached, and a list the last result omits is
\* stored empty.
C27_DefaultsFastThenFallBackToFast ==
    [][\A p \in Procs :
          /\ (pc[p] = "analyze" /\ pc'[p] \in {"analyze_escalate", "analyze_persist"}) =>
                /\ "decision" \notin DOMAIN an'[p].result =>
                      an'[p].decision = "no_change"
                /\ "drift_score" \notin DOMAIN an'[p].result =>
                      /\ an'[p].drift_score = 0
                      /\ pc'[p] = "analyze_persist"
          /\ (pc[p] = "analyze_escalate" /\ pc'[p] = "analyze_persist") =>
                /\ "decision" \notin DOMAIN an'[p].result =>
                      an'[p].decision = an[p].decision
                /\ "drift_score" \notin DOMAIN an'[p].result =>
                      an'[p].drift_score = an[p].drift_score
          /\ (pc[p] = "analyze_persist" /\ pc'[p] = "update_run_status") =>
                /\ LastAnalysis.decision = an[p].decision
                /\ LastAnalysis.drift_score = an[p].drift_score
                /\ \A k \in ListKeys :
                      k \notin DOMAIN an[p].result =>
                          LastAnalysis.diff_summary_json[k] = <<>>
      ]_vars

C27_Witness ==
    \E p \in Procs :
        /\ wf[p].analysis_id # NoId
        /\ Len(asked[p]) = 2
        /\ analyses[wf[p].analysis_id].decision = "maybe"
        /\ analyses[wf[p].analysis_id].drift_score = 45
        /\ analyses[wf[p].analysis_id].diff_summary_json.change_types = <<>>

\* C28: no step of the pipeline removes a stored snapshot or changes any of
\* its columns.
C28_SnapshotsAreNeverChanged ==
    [][\A i \in Ids(snapshots) :
          /\ i \in Ids(snapshots')
          /\ snapshots'[i] = snapshots[i]
      ]_vars

C28_Witness ==
    \E p \in Procs :
        /\ pc[p] = "done"
        /\ wf[p].run_id = 2
        /\ wf[p].snapshot_id = 1
        /\ Len(snapshots) = 2
        /\ snapshots[1].content_markdown = "C1"
        /\ snapshots[2].content_markdown = "C2"
        /\ Len(briefings) = 1

\* C29: an invocation that went through the whole graph without raising has
\* left its Run with status NO_CHANGE or DRIFT.
C29_CompletedRunIsNoChangeOrDrift ==
    \A p \in Procs :
        (pc[p] = "done" /\ wf[p].run_id # NoId) =>
            runs[wf[p].run_id].status \in {"no_change", "drift"}

\* C30: once an invocation has its snapshot from the store, its Run row
\* refers to that snapshot; a Run whose fetch failed refers to none.
C30_RunRefersToItsSnapshot ==
    \A p \in Procs :
        wf[p].run_id # NoId =>
            runs[wf[p].run_id].snapshot_id = wf[p].snapshot_id

\* A step in which the send of request r comes back from the webhook.
PostAnswered(r) == rq[r].pc = "posting" /\ rq'[r].pc = "done"

\* C31: the delivered-marker of a briefing goes from unset to set only in
\* a step where a post for that briefing came back with a status below 300;
\* a send that finds the webhook not configured, or whose post came back
\* with status 300 or more, leaves every briefing and the channel as they
\* were; and a send that finds the webhook configured and the marker unset
\* makes the request.
C31_MarkerSetOnlyAfterSuccessfulPost ==
    [][/\ \A b \in Ids(briefings) :
            (briefings[b].slack_ts = None /\ briefings'[b].slack_ts # None) =>
                \E r \in Reqs :
                    /\ PostAnswered(r)
                    /\ rq[r].briefing_id = b
                    /\ rq'[r].status_code \in 1..299
                    /\ PostsOf(b)' # PostsOf(b)
                    /\ briefings' = [briefings EXCEPT ![b].slack_ts = "posted"]
       /\ \A r \in Reqs :
            /\ (PostAnswered(r) /\ rq'[r].status_code >= 300) =>
                    briefings' = briefings /\ posted' = posted
            /\ (rq[r].pc = "send" /\ rq'[r].pc # "send"
                    /\ ~settings.slack_webhook_url) =>
                    /\ briefings' = briefings /\ posted' = posted
                    /\ rq'[r].pc = "done"
            /\ (rq[r].pc = "send" /\ rq'[r].pc # "send"
                    /\ settings.slack_webhook_url
                    /\ rq[r].briefing_id \in Ids(briefings)
                    /\ briefings[rq[r].briefing_id].slack_ts = None) =>
                    rq'[r].pc = "posting"
      ]_vars

\* A post for briefing 1 came back with status 500 and left the marker
\* unset; a later send for it posted again, and the marker is set.
C31_Witness ==
    \E r1, r2 \in Reqs :
        /\ r1 # r2
        /\ rq[r1].pc = "done" /\ rq[r1].briefing_id = 1
        /\ rq[r1].status_code >= 300
        /\ rq[r2].pc = "done" /\ rq[r2].briefing_id = 1
        /\ rq[r2].status_code \in 1..299
        /\ briefings[1].slack_ts = "posted"
        /\ Cardinality(PostsOf(1)) = 1

\* C32: a briefing whose delivered-marker is set has review_status
\* approved, whatever approve and reject requests were made.
C32_NotifiedBriefingIsApproved ==
    \A b \in Ids(briefings) :
        briefings[b].slack_ts # None => briefings[b].review_status = "approved"

====
